---- MODULE Spec2Model ----
(***************************************************************************)
(* Sheet ingestion and snapshot consistency of kiwi-rag: the sync cycle of *)
(* run_query.run (fetch, needs_refresh, load_snapshot, store.rebuild), the *)
(* relational store, the table metadata file, the sheet registry file and  *)
(* the semantic index.                                                     *)
(*                                                                         *)
(* Strings are sequences of one-character strings, so that sanitizing and  *)
(* suffixing of table names is computed character by character.  A Python  *)
(* None or missing string value is the empty sequence: every place of the  *)
(* code that reads such a value tests it for truthiness only.              *)
(***************************************************************************)
EXTENDS Integers, Sequences, FiniteSets, TLC

\* ------------------------------------------------------------------ bounds
MaxCycles == 3
MaxNameTables == 2

\* ----------------------------------------------------------------- strings
Alnum == {"A", "B", "T", "X", "Y", "a", "b", "l", "e",
          "0", "1", "2", "3", "4", "5", "6", "7", "8", "9"}

Digits == <<"0", "1", "2", "3", "4", "5", "6", "7", "8", "9">>

CharRank(c) ==
    CASE c = " " -> 32 [] c = "#" -> 35
      [] c = "0" -> 48 [] c = "1" -> 49 [] c = "2" -> 50 [] c = "3" -> 51
      [] c = "4" -> 52 [] c = "5" -> 53 [] c = "6" -> 54 [] c = "7" -> 55
      [] c = "8" -> 56 [] c = "9" -> 57
      [] c = "A" -> 65 [] c = "B" -> 66 [] c = "T" -> 84 [] c = "X" -> 88
      [] c = "Y" -> 89 [] c = "_" -> 95 [] c = "a" -> 97 [] c = "b" -> 98
      [] c = "e" -> 101 [] c = "l" -> 108

RECURSIVE StrLess(_, _)
StrLess(s, t) ==
    IF t = <<>> THEN FALSE
    ELSE IF s = <<>> THEN TRUE
    ELSE IF s[1] # t[1] THEN CharRank(s[1]) < CharRank(t[1])
    ELSE StrLess(Tail(s), Tail(t))

RECURSIVE IntToStr(_)
IntToStr(n) ==
    IF n < 10 THEN <<Digits[n + 1]>>
    ELSE IntToStr(n \div 10) \o <<Digits[(n % 10) + 1]>>

\* re.sub(r'[^a-zA-Z0-9]', '_', name)
ReplaceNonAlnum(s) == [i \in 1..Len(s) |-> IF s[i] \in Alnum THEN s[i] ELSE "_"]

\* re.sub(r'_+', '_', clean)
RECURSIVE CollapseUnderscores(_)
CollapseUnderscores(s) ==
    IF Len(s) <= 1 THEN s
    ELSE IF s[1] = "_" /\ s[2] = "_" THEN CollapseUnderscores(Tail(s))
    ELSE <<s[1]>> \o CollapseUnderscores(Tail(s))

\* clean.strip('_')
RECURSIVE StripUnderscores(_)
StripUnderscores(s) ==
    IF s = <<>> THEN s
    ELSE IF s[1] = "_" THEN StripUnderscores(Tail(s))
    ELSE IF s[Len(s)] = "_" THEN StripUnderscores(SubSeq(s, 1, Len(s) - 1))
    ELSE s

sanitize_table_name(name) ==
    StripUnderscores(CollapseUnderscores(ReplaceNonAlnum(name)))

get_source_id(spreadsheet_id, sheet_name) == spreadsheet_id \o <<"#">> \o sheet_name

\* ------------------------------------------------------------- the source
\* Worksheet titles of the spreadsheet and the titles the table cleaner can
\* capture (<<>>: the table has no title key).
SheetNames == {<<"A">>, <<"B">>}
Titles == {<<>>, <<"T">>, <<"T", " ", "2">>}
SpreadsheetIds == {<<"X">>, <<"Y">>}

\* detect_and_clean_tables: a table dict carries table_id, row_range,
\* col_range, dataframe, sheet_name and (when the cleaner found one) title.
\* Neither it nor fetch_sheets_with_tables sets 'source_id' or 'sheet_hash'.
\* The dataframe is known by the sheet and region it was cut from and by its
\* number of rows.
TableInfo(name, i, title) ==
    [title |-> title, sheet_name |-> name,
     dataframe |-> [sheet |-> name, region |-> i,
                    rows |-> i + (IF name = <<"A">> THEN 0 ELSE 1)]]

\* The table lists a sheet can yield, given the title of each table
SheetEntry(name, titles) ==
    [name |-> name, tables |-> [i \in 1..Len(titles) |-> TableInfo(name, i, titles[i])]]

TitleLists(ts, maxLen) == UNION {[1..n -> ts] : n \in 0..maxLen}

RECURSIVE TotalTables(_)
TotalTables(swt) ==
    IF swt = <<>> THEN 0 ELSE Len(Head(swt).tables) + TotalTables(Tail(swt))

\* The dicts fetch_sheets_with_tables can return for the worksheets named in
\* order (worksheet order), each yielding one of the title lists
SheetsWithTables(order, titleLists) ==
    {s \in [1..Len(order) -> {SheetEntry(nm, tl) : nm \in SheetNames, tl \in titleLists}] :
        \A i \in 1..Len(order) : s[i].name = order[i]}

\* Inputs of the sync cycle: one or two worksheets, at most two tables in all,
\* untitled or titled T
CycleTitleLists == TitleLists({<<>>, <<"T">>}, 2)
FetchResults ==
    UNION {{s \in SheetsWithTables(o, CycleTitleLists) : TotalTables(s) <= 2} :
              o \in {<<<<"A">>>>, <<<<"B">>>>, <<<<"A">>, <<"B">>>>}}

\* Inputs of a single load_snapshot pass: one or two worksheets in either
\* order, each with up to MaxNameTables tables and any title
NamingInputs ==
    UNION {SheetsWithTables(o, TitleLists(Titles, MaxNameTables)) :
              o \in {<<<<"A">>>>, <<<<"B">>>>, <<<<"A">>, <<"B">>>>, <<<<"B">>, <<"A">>>>}}

\* dict helpers on sheets_with_tables
SwtKeys(swt) == {swt[i].name : i \in 1..Len(swt)}
SwtGet(swt, name) == (CHOOSE i \in 1..Len(swt) : swt[i].name = name)
SwtTables(swt, name) == swt[SwtGet(swt, name)].tables

\* table_info.get(key): None (the empty string here) when the key is absent
TableGet(info, key) == IF key \in DOMAIN info THEN info[key] ELSE <<>>

\* sorted(sheets_with_tables.keys())
RECURSIVE SortedNames(_)
SortedNames(S) ==
    IF S = {} THEN <<>>
    ELSE LET m == CHOOSE x \in S : \A y \in S \ {x} : StrLess(x, y)
         IN <<m>> \o SortedNames(S \ {m})

\* -------------------------------------------------------- change detector
UNKNOWN == <<"U", "N", "K", "N", "O", "W", "N">>

\* The registry file data_sources/snapshots/sheet_state.json
NoRegistryFile == [kind |-> "missing"]

\* Other contents the registry file can have: bytes that are not JSON or a
\* file that cannot be read (json.load raises inside load_sheet_registry),
\* JSON that is not an object, such as a list (load_sheet_registry returns
\* it and old_registry.get raises inside needs_refresh), and the legacy
\* format {spreadsheet_id, sheets: [names], fingerprints: {table name: hash}}
CorruptRegistryFile == [kind |-> "corrupt"]
MalformedRegistryFile == [kind |-> "malformed"]

\* table_name.split("_Table")[0] for a table_name that contains "_Table"
TableMark == <<"_", "T", "a", "b", "l", "e">>
MarkPositions(table_name) ==
    {i \in 1..Len(table_name) :
        /\ i + Len(TableMark) - 1 <= Len(table_name)
        /\ SubSeq(table_name, i, i + Len(TableMark) - 1) = TableMark}
BeforeTableMark(table_name) ==
    LET i == CHOOSE k \in MarkPositions(table_name) :
                 \A j \in MarkPositions(table_name) : k <= j
    IN SubSeq(table_name, 1, i - 1)

\* _migrate_old_format: every sheet named by a fingerprint or by the old
\* sheets list, with no hash
migrate_old_format(old_registry) ==
    LET spreadsheet_id == old_registry.spreadsheet_id
        names == {BeforeTableMark(t) : t \in {f \in old_registry.fingerprints :
                                                  MarkPositions(f) # {}}}
                 \cup old_registry.sheets
    IN [spreadsheet_id |-> spreadsheet_id,
        sheets |-> [nm \in names |->
                       [hash |-> <<>>, table_count |-> 0,
                        source_id |-> IF spreadsheet_id # <<>>
                                      THEN get_source_id(spreadsheet_id, nm) ELSE <<>>]]]

\* load_sheet_registry: a missing file and a file that cannot be parsed read
\* as {spreadsheet_id: None, sheets: {}}; a legacy file is migrated in memory
load_sheet_registry(file) ==
    IF file.kind \in {"missing", "corrupt"}
    THEN [spreadsheet_id |-> <<>>, sheets |-> <<>>]
    ELSE IF file.kind = "legacy"
    THEN migrate_old_format(file)
    ELSE [spreadsheet_id |-> file.spreadsheet_id, sheets |-> file.sheets]

\* A loader that writes the registry it returns back to the file
RegistryFileAfterLoad_WriteBack(file) ==
    IF file.kind \in {"missing", "corrupt"}
    THEN [kind |-> "registry", spreadsheet_id |-> <<>>, sheets |-> <<>>]
    ELSE IF file.kind = "legacy"
    THEN [kind |-> "registry", spreadsheet_id |-> file.spreadsheet_id,
          sheets |-> migrate_old_format(file).sheets]
    ELSE file

\* load_sheet_registry opens the file for reading only: the file after the call
RegistryFileAfterLoad(file) == file

\* compute_current_sheet_hashes: an ordered dict, one entry per sheet that
\* has at least one table; the hash is the first table's 'sheet_hash', and
\* "UNKNOWN" when that is missing.
RECURSIVE compute_current_sheet_hashes(_, _)
compute_current_sheet_hashes(swt, spreadsheet_id) ==
    IF swt = <<>> THEN <<>>
    ELSE LET e == Head(swt)
             rest == compute_current_sheet_hashes(Tail(swt), spreadsheet_id)
             sheet_hash == TableGet(e.tables[1], "sheet_hash")
         IN IF Len(e.tables) > 0
            THEN <<[name |-> e.name,
                    hash |-> IF sheet_hash = <<>> THEN UNKNOWN ELSE sheet_hash,
                    table_count |-> Len(e.tables),
                    source_id |-> get_source_id(spreadsheet_id, e.name)]>> \o rest
            ELSE rest

\* get_changed_sheets: new sheets, sheets without a stored hash, sheets whose
\* hash differs; in the order of current_sheet_hashes.
RECURSIVE get_changed_sheets(_, _)
get_changed_sheets(old_registry, current) ==
    IF current = <<>> THEN <<>>
    ELSE LET c == Head(current)
             old_sheets == old_registry.sheets
             rest == get_changed_sheets(old_registry, Tail(current))
             changed == \/ c.name \notin DOMAIN old_sheets
                        \/ old_sheets[c.name].hash = <<>>
                        \/ c.hash # old_sheets[c.name].hash
         IN IF changed THEN <<c.name>> \o rest ELSE rest

\* A classifier that compares the hashes before it looks at the spreadsheet
\* id and at the emptiness of the registry
needs_refresh_HashesFirst(file, swt, current_spreadsheet_id) ==
    LET old_registry == IF file.kind = "malformed"
                        THEN [spreadsheet_id |-> <<>>, sheets |-> <<>>]
                        ELSE load_sheet_registry(file)
        changed_sheets == get_changed_sheets(
            old_registry, compute_current_sheet_hashes(swt, current_spreadsheet_id))
    IN IF changed_sheets = <<>>
       THEN [needs |-> FALSE, full |-> FALSE, changed |-> <<>>]
       ELSE IF \/ file.kind = "malformed"
               \/ DOMAIN old_registry.sheets = {}
               \/ (old_registry.spreadsheet_id # <<>>
                   /\ old_registry.spreadsheet_id # current_spreadsheet_id)
       THEN [needs |-> TRUE, full |-> TRUE, changed |-> <<>>]
       ELSE [needs |-> TRUE, full |-> FALSE, changed |-> changed_sheets]

\* A classifier that asks for a refresh of nothing when no sheet changed
needs_refresh_RefreshAnyway(file, swt, current_spreadsheet_id) ==
    LET old_registry == IF file.kind = "malformed"
                        THEN [spreadsheet_id |-> <<>>, sheets |-> <<>>]
                        ELSE load_sheet_registry(file)
        changed_sheets == get_changed_sheets(
            old_registry, compute_current_sheet_hashes(swt, current_spreadsheet_id))
    IN IF \/ file.kind = "malformed"
          \/ DOMAIN old_registry.sheets = {}
          \/ (old_registry.spreadsheet_id # <<>>
              /\ old_registry.spreadsheet_id # current_spreadsheet_id)
       THEN [needs |-> TRUE, full |-> TRUE, changed |-> <<>>]
       ELSE [needs |-> TRUE, full |-> FALSE, changed |-> changed_sheets]

\* A classifier whose error handler reports "no change"
needs_refresh_ErrorIsNoChange(file, swt, current_spreadsheet_id) ==
    LET old_registry == IF file.kind \in {"malformed", "corrupt"}
                        THEN [spreadsheet_id |-> <<>>, sheets |-> <<>>]
                        ELSE load_sheet_registry(file)
        changed_sheets == get_changed_sheets(
            old_registry, compute_current_sheet_hashes(swt, current_spreadsheet_id))
    IN IF file.kind \in {"malformed", "corrupt"}
       THEN [needs |-> FALSE, full |-> FALSE, changed |-> <<>>]
       ELSE IF \/ DOMAIN old_registry.sheets = {}
               \/ (old_registry.spreadsheet_id # <<>>
                   /\ old_registry.spreadsheet_id # current_spreadsheet_id)
       THEN [needs |-> TRUE, full |-> TRUE, changed |-> <<>>]
       ELSE IF changed_sheets = <<>>
       THEN [needs |-> FALSE, full |-> FALSE, changed |-> <<>>]
       ELSE [needs |-> TRUE, full |-> FALSE, changed |-> changed_sheets]

\* needs_refresh: (needs_refresh, full_reset_required, changed_sheets)
needs_refresh(file, swt, current_spreadsheet_id) ==
    LET old_registry == IF file.kind = "malformed"
                        THEN [spreadsheet_id |-> <<>>, sheets |-> <<>>]
                        ELSE load_sheet_registry(file)
        old_spreadsheet_id == old_registry.spreadsheet_id
        changed_sheets == get_changed_sheets(
            old_registry, compute_current_sheet_hashes(swt, current_spreadsheet_id))
    IN IF file.kind = "malformed"
       THEN \* old_registry.get raises; except: safe default, full reset
            [needs |-> TRUE, full |-> TRUE, changed |-> <<>>]
       ELSE IF old_spreadsheet_id # <<>> /\ old_spreadsheet_id # current_spreadsheet_id
       THEN [needs |-> TRUE, full |-> TRUE, changed |-> <<>>]
       ELSE IF DOMAIN old_registry.sheets = {}
       THEN [needs |-> TRUE, full |-> TRUE, changed |-> <<>>]
       ELSE IF changed_sheets = <<>>
       THEN [needs |-> FALSE, full |-> FALSE, changed |-> <<>>]
       ELSE [needs |-> TRUE, full |-> FALSE, changed |-> changed_sheets]

\* save_sheet_registry: the file written (last_synced, a wall-clock stamp,
\* is left out)
save_sheet_registry(spreadsheet_id, sheet_hashes) ==
    [kind |-> "registry",
     spreadsheet_id |-> spreadsheet_id,
     sheets |-> [nm \in {sheet_hashes[i].name : i \in 1..Len(sheet_hashes)} |->
                    LET h == sheet_hashes[CHOOSE i \in 1..Len(sheet_hashes) :
                                              sheet_hashes[i].name = nm]
                    IN [hash |-> h.hash, table_count |-> h.table_count,
                        source_id |-> h.source_id]]]

\* mark_synced: the registry file after the call
mark_synced(swt, spreadsheet_id) ==
    save_sheet_registry(spreadsheet_id, compute_current_sheet_hashes(swt, spreadsheet_id))

\* --------------------------------------------------------- snapshot loader
\* The relational store maps a table name to the dataframe it was created
\* from; the metadata file maps a table name to its entry (created_at, a
\* wall-clock stamp, is left out).
EmptyStore == <<>>

Put(f, k, v) == (k :> v) @@ f
Remove(f, ks) == [k \in DOMAIN f \ ks |-> f[k]]

\* delete_tables_by_source_id: reads the metadata file, drops every table
\* whose entry carries source_id, and writes the file back when it dropped any.
delete_tables_by_source_id(store, file, source_id) ==
    LET tables_to_delete == {n \in DOMAIN file : file[n].source_id = source_id}
    IN [db |-> Remove(store, tables_to_delete),
        file |-> Remove(file, tables_to_delete)]

\* The deletion loop of the incremental branch: only a sheet whose first
\* table carries a non-empty source_id has its tables deleted.
RECURSIVE DeleteChanged(_, _, _, _)
DeleteChanged(store, file, swt, changed_sheets) ==
    IF changed_sheets = <<>> THEN [db |-> store, file |-> file]
    ELSE LET sheet_name == Head(changed_sheets)
             source_id == TableGet(SwtTables(swt, sheet_name)[1], "source_id")
             r == IF /\ sheet_name \in SwtKeys(swt)
                     /\ Len(SwtTables(swt, sheet_name)) > 0
                     /\ source_id # <<>>
                  THEN delete_tables_by_source_id(store, file, source_id)
                  ELSE [db |-> store, file |-> file]
         IN DeleteChanged(r.db, r.file, swt, Tail(changed_sheets))

\* The tables of the sheets to rebuild, in loop order, with enumerate(tables, 1)
RECURSIVE TablesToLoad(_, _)
TablesToLoad(swt, sheets_to_rebuild) ==
    IF sheets_to_rebuild = <<>> THEN <<>>
    ELSE LET sheet_name == Head(sheets_to_rebuild)
             rest == TablesToLoad(swt, Tail(sheets_to_rebuild))
         IN IF sheet_name \notin SwtKeys(swt) THEN rest
            ELSE LET tables == SwtTables(swt, sheet_name)
                 IN [i \in 1..Len(tables) |->
                        [sheet_name |-> sheet_name, idx |-> i, table_info |-> tables[i]]]
                    \o rest

\* base name: the sanitized title, or <sheet>_Table<idx>
BaseName(sheet_name, idx, table_info) ==
    IF TableGet(table_info, "title") # <<>>
    THEN sanitize_table_name(table_info.title)
    ELSE sanitize_table_name(sheet_name) \o <<"_", "T", "a", "b", "l", "e">> \o IntToStr(idx)

\* final name, given name_counts before this table
\* A naming rule that numbers duplicates from 1: the suffix is the number of
\* earlier tables with the base name
FinalName_FromOne(base_name, name_counts) ==
    IF base_name \in DOMAIN name_counts
    THEN base_name \o <<"_">> \o IntToStr(name_counts[base_name])
    ELSE base_name

FinalName(base_name, name_counts) ==
    IF base_name \in DOMAIN name_counts
    THEN base_name \o <<"_">> \o IntToStr(name_counts[base_name] + 1)
    ELSE base_name

\* The naming part of the load loop: each table with its final name
RECURSIVE AssignNames(_, _)
AssignNames(items, name_counts) ==
    IF items = <<>> THEN <<>>
    ELSE LET it == Head(items)
             base_name == BaseName(it.sheet_name, it.idx, it.table_info)
             count == IF base_name \in DOMAIN name_counts
                      THEN name_counts[base_name] + 1 ELSE 1
         IN <<[final_name |-> FinalName(base_name, name_counts),
               sheet_name |-> it.sheet_name, idx |-> it.idx,
               table_info |-> it.table_info]>>
            \o AssignNames(Tail(items), Put(name_counts, base_name, count))

\* The metadata entry written for a loaded table (its created_at timestamp,
\* which no reader uses, is left out)
MetadataEntry(c) ==
    [source_id |-> TableGet(c.table_info, "source_id"),
     sheet_name |-> TableGet(c.table_info, "sheet_name"),
     table_index |-> c.idx,
     row_count |-> c.table_info.dataframe.rows]

\* A loader that appends the rows to a table that already exists instead of
\* replacing it
CreateTable_Append(store, final_name, dataframe) ==
    IF final_name \in DOMAIN store
    THEN Put(store, final_name,
             [dataframe EXCEPT !.rows = store[final_name].rows + dataframe.rows])
    ELSE Put(store, final_name, dataframe)

\* DROP TABLE IF EXISTS final_name; CREATE TABLE final_name AS SELECT * FROM df
CreateTable(store, final_name, dataframe) ==
    Put(store, final_name, dataframe)

\* DROP TABLE IF EXISTS + CREATE TABLE ... AS, and the in-memory
\* table_metadata update, for the first n tables of the pass
RECURSIVE CreateTables(_, _, _, _)
CreateTables(store, table_metadata, creates, n) ==
    IF n = 0 \/ creates = <<>> THEN [db |-> store, table_metadata |-> table_metadata]
    ELSE LET c == Head(creates)
         IN CreateTables(CreateTable(store, c.final_name, c.table_info.dataframe),
                         Put(table_metadata, c.final_name, MetadataEntry(c)),
                         Tail(creates), n - 1)

\* A loader that marks the sheets as synced before it creates the tables
load_snapshot_SyncFirst(store, file, registry, swt, full_reset, changed_sheets, spreadsheet_id, failAt) ==
    LET loaded == file
        start ==
            IF full_reset
            THEN \* reset_duckdb_snapshot: new database file, save_table_metadata({})
                 [db |-> EmptyStore, file |-> EmptyStore, table_metadata |-> EmptyStore,
                  sheets_to_rebuild |-> SortedNames(SwtKeys(swt))]
            ELSE IF changed_sheets # <<>>
            THEN LET d == DeleteChanged(store, file, swt, changed_sheets)
                 IN [db |-> d.db, file |-> d.file, table_metadata |-> loaded,
                     sheets_to_rebuild |-> changed_sheets]
            ELSE [db |-> store, file |-> file, table_metadata |-> loaded,
                  sheets_to_rebuild |-> SortedNames(SwtKeys(swt))]
        creates == AssignNames(TablesToLoad(swt, start.sheets_to_rebuild), <<>>)
        raised == failAt > 0 /\ failAt <= Len(creates)
        done == CreateTables(start.db, start.table_metadata, creates,
                             IF raised THEN failAt - 1 ELSE Len(creates))
    IN IF raised
       THEN [db |-> Remove(done.db, {creates[failAt].final_name}),
             file |-> start.file, registry |-> mark_synced(swt, spreadsheet_id),
             raised |-> TRUE, creates |-> creates]
       ELSE [db |-> done.db,
             file |-> done.table_metadata,
             registry |-> mark_synced(swt, spreadsheet_id),
             raised |-> FALSE, creates |-> creates]

\* load_snapshot(sheets_with_tables, full_reset, changed_sheets).  failAt = 0:
\* every statement succeeds; failAt = k > 0: the CREATE of the k-th table of
\* the pass raises (its DROP IF EXISTS has run), which ends the function
\* before save_table_metadata and mark_synced.
load_snapshot(store, file, registry, swt, full_reset, changed_sheets, spreadsheet_id, failAt) ==
    LET loaded == file
        start ==
            IF full_reset
            THEN \* reset_duckdb_snapshot: new database file, save_table_metadata({})
                 [db |-> EmptyStore, file |-> EmptyStore, table_metadata |-> EmptyStore,
                  sheets_to_rebuild |-> SortedNames(SwtKeys(swt))]
            ELSE IF changed_sheets # <<>>
            THEN LET d == DeleteChanged(store, file, swt, changed_sheets)
                 IN [db |-> d.db, file |-> d.file, table_metadata |-> loaded,
                     sheets_to_rebuild |-> changed_sheets]
            ELSE [db |-> store, file |-> file, table_metadata |-> loaded,
                  sheets_to_rebuild |-> SortedNames(SwtKeys(swt))]
        creates == AssignNames(TablesToLoad(swt, start.sheets_to_rebuild), <<>>)
        raised == failAt > 0 /\ failAt <= Len(creates)
        done == CreateTables(start.db, start.table_metadata, creates,
                             IF raised THEN failAt - 1 ELSE Len(creates))
    IN IF raised
       THEN [db |-> Remove(done.db, {creates[failAt].final_name}),
             file |-> start.file, registry |-> registry,
             raised |-> TRUE, creates |-> creates]
       ELSE [db |-> done.db,
             file |-> done.table_metadata,
             registry |-> mark_synced(swt, spreadsheet_id),
             raised |-> FALSE, creates |-> creates]

\* load_snapshot when an error is swallowed inside it and every CREATE
\* succeeds.  fault = "reset": os.remove of the database file raises inside
\* reset_duckdb_snapshot, whose except clause prints the error, so the old
\* tables stay, save_table_metadata({}) is not reached and load_snapshot goes
\* on with table_metadata = {}.  fault = "save": the final
\* save_table_metadata cannot write the file and prints the error.
load_snapshot_swallowing(store, file, registry, swt, full_reset, changed_sheets, spreadsheet_id, fault) ==
    LET loaded == file
        start ==
            IF full_reset
            THEN IF fault = "reset"
                 THEN [db |-> store, file |-> file, table_metadata |-> EmptyStore,
                       sheets_to_rebuild |-> SortedNames(SwtKeys(swt))]
                 ELSE [db |-> EmptyStore, file |-> EmptyStore, table_metadata |-> EmptyStore,
                       sheets_to_rebuild |-> SortedNames(SwtKeys(swt))]
            ELSE IF changed_sheets # <<>>
            THEN LET d == DeleteChanged(store, file, swt, changed_sheets)
                 IN [db |-> d.db, file |-> d.file, table_metadata |-> loaded,
                     sheets_to_rebuild |-> changed_sheets]
            ELSE [db |-> store, file |-> file, table_metadata |-> loaded,
                  sheets_to_rebuild |-> SortedNames(SwtKeys(swt))]
        creates == AssignNames(TablesToLoad(swt, start.sheets_to_rebuild), <<>>)
        done == CreateTables(start.db, start.table_metadata, creates, Len(creates))
    IN [db |-> done.db,
        file |-> IF fault = "save" THEN start.file ELSE done.table_metadata,
        registry |-> mark_synced(swt, spreadsheet_id),
        raised |-> FALSE, creates |-> creates]

\* ---------------------------------------------------------- semantic index
\* build_schema_documents: one document per table of the relational store;
\* a document carries no source_id key.
build_schema_documents(store) == {[type |-> "table", table |-> n] : n \in DOMAIN store}

DocGet(doc, key) == IF key \in DOMAIN doc THEN doc[key] ELSE <<>>

SeqToSet(q) == {q[i] : i \in 1..Len(q)}

\* SchemaVectorStore.rebuild(source_ids); partial = source_ids is not None
rebuild(docs, store, partial, source_ids) ==
    IF ~partial
    THEN build_schema_documents(store)
    ELSE {d \in docs : DocGet(d, "source_id") \notin SeqToSet(source_ids)}
         \cup {d \in build_schema_documents(store) :
                  DocGet(d, "source_id") \in SeqToSet(source_ids)}

\* run(): the source_ids of the changed sheets
RECURSIVE SourceIds(_, _)
SourceIds(swt, changed_sheets) ==
    IF changed_sheets = <<>> THEN <<>>
    ELSE LET sheet_name == Head(changed_sheets)
             rest == SourceIds(swt, Tail(changed_sheets))
             source_id == TableGet(SwtTables(swt, sheet_name)[1], "source_id")
         IN IF /\ sheet_name \in SwtKeys(swt)
               /\ Len(SwtTables(swt, sheet_name)) > 0
               /\ source_id # <<>>
            THEN <<source_id>> \o rest ELSE rest

\* ---------------------------------------------------------- table detector
\* A DataFrame of raw strings is a sequence of rows, each a sequence of
\* cells; a cell is a string.  Positions are 0-based and ranges half-open,
\* as in the code.
MaxGridRows == 4
MaxGridCols == 5
MaxGridCells == 15

GridRows(g) == Len(g)
GridCols(g) == IF Len(g) = 0 THEN 0 ELSE Len(g[1])
CellAt(g, r, c) == g[r + 1][c + 1]

\* non_empty = (grid != "").astype(int)
non_empty(g, r, c) == CellAt(g, r, c) # <<>>

\* np.sum(non_empty[r, c0:c1])
np_sum(g, r, c0, c1) == Cardinality({c \in c0..(c1 - 1) : non_empty(g, r, c)})

\* df.iloc[r0:r1, c0:c1].reset_index(drop=True)
iloc(g, r0, r1, c0, c1) ==
    [i \in 1..(r1 - r0) |-> [j \in 1..(c1 - c0) |-> CellAt(g, r0 + i - 1, c0 + j - 1)]]

\* The cells of a row/column range
CellsOf(r0, r1, c0, c1) == (r0..(r1 - 1)) \X (c0..(c1 - 1))

\* while c1 < cols and non_empty[r, c1]: c1 += 1
RECURSIVE ScanRight(_, _, _)
ScanRight(g, r, c1) ==
    IF c1 < GridCols(g) /\ non_empty(g, r, c1) THEN ScanRight(g, r, c1 + 1) ELSE c1

\* while c0 > 0 and non_empty[r, c0 - 1]: c0 -= 1
RECURSIVE ScanLeft(_, _, _)
ScanLeft(g, r, c0) ==
    IF c0 > 0 /\ non_empty(g, r, c0 - 1) THEN ScanLeft(g, r, c0 - 1) ELSE c0

max_empty_rows == 2

\* non_empty_count >= max(1, (c1 - c0) * 0.3), in tenths
RowHasData(g, r, c0, c1) ==
    LET non_empty_count == np_sum(g, r, c0, c1)
    IN non_empty_count >= 1 /\ 10 * non_empty_count >= 3 * (c1 - c0)

\* The downward loop of expand_table_region, from row r1 on
RECURSIVE GrowDown(_, _, _, _, _)
GrowDown(g, r1, c0, c1, empty_row_count) ==
    IF r1 < GridRows(g) /\ empty_row_count < max_empty_rows
    THEN IF RowHasData(g, r1, c0, c1)
         THEN LET temp_c0 == ScanLeft(g, r1, c0)
                  temp_c1 == ScanRight(g, r1, c1)
              IN GrowDown(g, r1 + 1,
                          IF temp_c0 >= c0 - 2 THEN temp_c0 ELSE c0,
                          IF temp_c1 <= c1 + 2 THEN temp_c1 ELSE c1, 0)
         ELSE GrowDown(g, r1 + 1, c0, c1, empty_row_count + 1)
    ELSE [r1 |-> r1 - empty_row_count, c0 |-> c0, c1 |-> c1]

\* expand_table_region(non_empty, assigned, start_r, start_c, rows, cols);
\* the function never reads assigned
expand_table_region(g, assigned, start_r, start_c) ==
    LET c1 == ScanRight(g, start_r, start_c + 1)
        c0 == ScanLeft(g, start_r, start_c)
        d == GrowDown(g, start_r + 1, c0, c1, 0)
    IN [r0 |-> start_r, r1 |-> d.r1, c0 |-> d.c0, c1 |-> d.c1]

\* A size test that looks at the rows only
MinSize_RowsOnly(r0, r1, c0, c1) == (r1 - r0) >= 2

\* (r1 - r0) >= 2 and (c1 - c0) >= 2
MinSize(r0, r1, c0, c1) == (r1 - r0) >= 2 /\ (c1 - c0) >= 2

\* The row above is taken as a title row: it has cells, fewer than 60% of
\* the first row's
TitleAbove(g, r0, c0, c1) ==
    /\ r0 > 0
    /\ np_sum(g, r0 - 1, c0, c1) > 0
    /\ 10 * np_sum(g, r0 - 1, c0, c1) < 6 * np_sum(g, r0, c0, c1)

\* The scan of detect_tables_custom from position k = r * cols + c on.
\* candidates lists what expand_table_region returned for each seed.
RECURSIVE ScanGrid(_, _, _, _, _)
ScanGrid(g, k, assigned, tables, candidates) ==
    IF k >= GridRows(g) * GridCols(g)
    THEN [tables |-> tables, assigned |-> assigned, candidates |-> candidates]
    ELSE LET r == k \div GridCols(g)
             c == k % GridCols(g)
         IN IF non_empty(g, r, c) /\ <<r, c>> \notin assigned
            THEN LET e == expand_table_region(g, assigned, r, c)
                     r0 == IF MinSize(e.r0, e.r1, e.c0, e.c1) /\ TitleAbove(g, e.r0, e.c0, e.c1)
                           THEN e.r0 - 1 ELSE e.r0
                     cand == [seed |-> <<r, c>>, r0 |-> e.r0, r1 |-> e.r1,
                              c0 |-> e.c0, c1 |-> e.c1]
                 IN IF MinSize(e.r0, e.r1, e.c0, e.c1)
                    THEN ScanGrid(g, k + 1,
                                  assigned \cup CellsOf(r0, e.r1, e.c0, e.c1),
                                  Append(tables,
                                         [table_id |-> Len(tables),
                                          row_range |-> <<r0, e.r1>>,
                                          col_range |-> <<e.c0, e.c1>>,
                                          dataframe |-> iloc(g, r0, e.r1, e.c0, e.c1)]),
                                  Append(candidates, cand))
                    ELSE ScanGrid(g, k + 1,
                                  assigned \cup CellsOf(e.r0, e.r1, e.c0, e.c1),
                                  tables, Append(candidates, cand))
            ELSE ScanGrid(g, k + 1, assigned, tables, candidates)

\* detect_tables_custom(df): the tables it returns, with the assigned mask
\* and the expansions of its seeds
detect_tables_custom(g) == ScanGrid(g, 0, {}, <<>>, <<>>)

\* ------------------------------------------------------------ table cleaner
\* str.strip(): leading and trailing blanks removed
RECURSIVE StripLeft(_)
StripLeft(s) == IF s # <<>> /\ Head(s) = " " THEN StripLeft(Tail(s)) ELSE s

RECURSIVE StripRight(_)
StripRight(s) ==
    IF s # <<>> /\ s[Len(s)] = " " THEN StripRight(SubSeq(s, 1, Len(s) - 1)) ELSE s

strip(s) == StripRight(StripLeft(s))

\* row.astype(str).str.strip().replace('', pd.NA).notna().sum()
NonBlankCount(row) == Cardinality({j \in 1..Len(row) : strip(row[j]) # <<>>})

\* A title rule that takes a first row of at most 1 cell only
is_title_SingleCell(first_row, second_row) ==
    LET non_empty_first == NonBlankCount(first_row)
        non_empty_second == NonBlankCount(second_row)
    IN \/ non_empty_first <= 1
       \/ non_empty_second > 0 /\ 10 * non_empty_first < 6 * non_empty_second

\* is_title: non_empty_first <= 2, or non_empty_second > 0 and
\* non_empty_first < non_empty_second * 0.6 (in tenths)
is_title(first_row, second_row) ==
    LET non_empty_first == NonBlankCount(first_row)
        non_empty_second == NonBlankCount(second_row)
    IN \/ non_empty_first <= 2
       \/ non_empty_second > 0 /\ 10 * non_empty_first < 6 * non_empty_second

\* The first cell of the row that is not blank, stripped; <<>> if none
RECURSIVE FirstNonBlank(_)
FirstNonBlank(row) ==
    IF row = <<>> THEN <<>>
    ELSE IF strip(Head(row)) # <<>> THEN strip(Head(row))
    ELSE FirstNonBlank(Tail(row))

\* non_empty_in_header >= max(2, len(df.columns) * 0.4), in tenths
HasHeader(rows, ncols) ==
    /\ Len(rows) > 0
    /\ NonBlankCount(rows[1]) >= 2
    /\ 10 * NonBlankCount(rows[1]) >= 4 * ncols

\* f"Column_{i}"
ColumnPlaceholder(i) == <<"C", "o", "l", "u", "m", "n", "_">> \o IntToStr(i)

\* The column names taken from the header row, enumerate() counting from 0
HeaderNames(row) ==
    [j \in 1..Len(row) |->
        IF strip(row[j]) # <<>> THEN strip(row[j]) ELSE ColumnPlaceholder(j - 1)]

\* Remove trailing empty rows
RECURSIVE DropTrailingBlank(_)
DropTrailingBlank(rows) ==
    IF Len(rows) > 0 /\ NonBlankCount(rows[Len(rows)]) = 0
    THEN DropTrailingBlank(SubSeq(rows, 1, Len(rows) - 1)) ELSE rows

\* The body of the loop of clean_detected_tables for one table: the tables
\* it appends to cleaned_tables (none or one).  A cleaned dataframe is its
\* column labels and its rows; the labels of a region cut from the sheet
\* are the sheet's column positions.
clean_table(table, keep_title) ==
    LET df0 == table.dataframe
        r0 == table.row_range[1]
        r1 == table.row_range[2]
        c0 == table.col_range[1]
        c1 == table.col_range[2]
        labels == [j \in 1..(c1 - c0) |-> c0 + j - 1]
    IN IF "is_wide_table" \in DOMAIN table \/ "header_rows" \in DOMAIN table
       THEN <<table>>
       ELSE IF Len(df0) < 2
       THEN <<[table_id |-> table.table_id, row_range |-> <<r0, r1>>,
               col_range |-> <<c0, c1>>, columns |-> labels, dataframe |-> df0]>>
       ELSE LET titled == is_title(df0[1], df0[2])
                title_row == IF titled /\ keep_title THEN FirstNonBlank(df0[1]) ELSE <<>>
                df1 == IF titled THEN Tail(df0) ELSE df0
                promoted == HasHeader(df1, c1 - c0)
                df2 == IF promoted THEN Tail(df1) ELSE df1
                df3 == DropTrailingBlank(df2)
                table_info ==
                    [table_id |-> table.table_id,
                     row_range |-> <<r0 + (IF titled THEN 1 ELSE 0)
                                        + (IF promoted THEN 1 ELSE 0),
                                     r1 - (Len(df2) - Len(df3))>>,
                     col_range |-> <<c0, c1>>,
                     columns |-> IF promoted THEN HeaderNames(df1[1]) ELSE labels,
                     dataframe |-> df3]
            IN IF Len(df3) > 0
               THEN <<IF title_row # <<>>
                      THEN ("title" :> title_row) @@ table_info ELSE table_info>>
               ELSE <<>>

\* clean_detected_tables(tables, keep_title)
RECURSIVE clean_detected_tables(_, _)
clean_detected_tables(tables, keep_title) ==
    IF tables = <<>> THEN <<>>
    ELSE clean_table(Head(tables), keep_title)
         \o clean_detected_tables(Tail(tables), keep_title)

\* ---------------------------------------------------------- table detection
\* A fallback that gives up the sheet
Fallback_NoTable(g, sheet_name) == <<>>

\* Fallback: treat entire sheet as one table
Fallback(g, sheet_name) ==
    <<[table_id |-> 0, row_range |-> <<0, GridRows(g)>>,
       col_range |-> <<0, GridCols(g)>>, dataframe |-> g, sheet_name |-> sheet_name]>>

\* detect_and_clean_tables(df, sheet_name); detector_raises: the call of
\* detect_tables_custom raises
detect_and_clean_tables(g, sheet_name, detector_raises) ==
    IF detector_raises THEN Fallback(g, sheet_name)
    ELSE LET detected_tables == detect_tables_custom(g).tables
             cleaned_tables == clean_detected_tables(detected_tables, TRUE)
         IN IF detected_tables = <<>> THEN Fallback(g, sheet_name)
            ELSE [i \in 1..Len(cleaned_tables) |->
                     ("sheet_name" :> sheet_name) @@ cleaned_tables[i]]

\* ------------------------------------------------------------- sheet hasher
\* json.dumps of a string: quotes around it, '"' and '\' escaped
RECURSIVE JsonEscape(_)
JsonEscape(s) ==
    IF s = <<>> THEN <<>>
    ELSE (IF Head(s) \in {"\"", "\\"} THEN <<"\\", Head(s)>> ELSE <<Head(s)>>)
         \o JsonEscape(Tail(s))

JsonString(s) == <<"\"">> \o JsonEscape(s) \o <<"\"">>

\* json.dumps of a list with separators=(',', ':'): the items between
\* brackets, joined by commas
RECURSIVE JsonJoin(_)
JsonJoin(items) ==
    IF items = <<>> THEN <<>>
    ELSE IF Len(items) = 1 THEN items[1]
    ELSE items[1] \o <<",">> \o JsonJoin(Tail(items))

JsonList(items) == <<"[">> \o JsonJoin(items) \o <<"]">>

\* normalized_cell: '' for None or '', str(cell).strip() otherwise
normalized_cell(cell) == IF cell = <<>> THEN <<>> ELSE strip(cell)

\* hashlib.sha256(...).hexdigest(), taken as collision-free: the digest
\* stands for the bytes that were hashed
sha256(bytes) == [sha256 |-> bytes]

\* compute_sheet_hash(raw_grid)
compute_sheet_hash(raw_grid) ==
    IF raw_grid = <<>> THEN sha256(<<>>)
    ELSE LET canonical_grid ==
                 [i \in 1..Len(raw_grid) |->
                     [j \in 1..Len(raw_grid[i]) |-> normalized_cell(raw_grid[i][j])]]
             json_str ==
                 JsonList([i \in 1..Len(canonical_grid) |->
                              JsonList([j \in 1..Len(canonical_grid[i]) |->
                                           JsonString(canonical_grid[i][j])])])
         IN sha256(json_str)

\* ------------------------------------------------------------------- state
VARIABLES
    pc,             \* position of run(): idle, clear, load, rebuild, serve, served, raised
    sheets_with_tables, \* result of fetch_sheets_with_tables of this cycle
    full_reset,     \* needs_refresh result
    changed_sheets, \* needs_refresh result
    db,             \* relational store (latest.duckdb)
    metaFile,       \* table_metadata.json
    regFile,        \* sheet_state.json
    index,          \* documents of the ChromaDB collection
    configId,       \* google_sheets.spreadsheet_id of config/settings.yaml
    cycles,         \* number of run() calls started
    failedAt,       \* the step that raised in this cycle ("" if none)
    skipped,        \* worksheets fetch_sheets_with_tables skipped after an error
    db0, meta0, reg0, index0,  \* the stores when this cycle started
    df,             \* the raw grid given to a function of the table detector
    returned        \* what that function returned

vars == <<pc, sheets_with_tables, full_reset, changed_sheets, db, metaFile, regFile,
          index, configId, cycles, failedAt, skipped, db0, meta0, reg0, index0,
          df, returned>>

stores == <<db, metaFile, regFile, index>>
locals == <<sheets_with_tables, full_reset, changed_sheets, skipped>>
starts == <<db0, meta0, reg0, index0>>
grids == <<df, returned>>

Init ==
    /\ pc = "idle"
    /\ sheets_with_tables = <<>>
    /\ full_reset = FALSE
    /\ changed_sheets = <<>>
    /\ db = EmptyStore
    /\ metaFile = EmptyStore
    /\ regFile = NoRegistryFile
    /\ index = {}
    /\ configId = <<"X">>
    /\ cycles = 0
    /\ failedAt = ""
    /\ skipped = {}
    /\ db0 = EmptyStore
    /\ meta0 = EmptyStore
    /\ reg0 = NoRegistryFile
    /\ index0 = {}
    /\ df = <<>>
    /\ returned = <<>>

\* run() lines 53-63: fetch the sheets and classify
Fetch ==
    /\ pc = "idle"
    /\ UNCHANGED grids
    /\ cycles < MaxCycles
    /\ \E s \in FetchResults :
        LET r == needs_refresh(regFile, s, configId)
        IN /\ sheets_with_tables' = s
           /\ full_reset' = r.full
           /\ changed_sheets' = r.changed
           /\ pc' = IF ~r.needs THEN "serve" ELSE IF r.full THEN "clear" ELSE "load"
    /\ skipped' = {}
    /\ regFile' = RegistryFileAfterLoad(regFile)
    /\ cycles' = cycles + 1
    /\ db0' = db /\ meta0' = metaFile /\ reg0' = regFile /\ index0' = index
    /\ UNCHANGED <<db, metaFile, index, configId, failedAt>>

\* fetch_sheets_with_tables lines 333-387: reading or processing a worksheet
\* raises, the except clause prints the error and continues with the next
\* worksheet; the result holds the other worksheet only
FetchSkipsSheet ==
    /\ pc = "idle"
    /\ UNCHANGED grids
    /\ cycles < MaxCycles
    /\ \E s \in {t \in FetchResults : SwtKeys(t) # SheetNames} :
        LET r == needs_refresh(regFile, s, configId)
        IN /\ sheets_with_tables' = s
           /\ full_reset' = r.full
           /\ changed_sheets' = r.changed
           /\ pc' = IF ~r.needs THEN "serve" ELSE IF r.full THEN "clear" ELSE "load"
           /\ skipped' = SheetNames \ SwtKeys(s)
    /\ regFile' = RegistryFileAfterLoad(regFile)
    /\ cycles' = cycles + 1
    /\ db0' = db /\ meta0' = metaFile /\ reg0' = regFile /\ index0' = index
    /\ UNCHANGED <<db, metaFile, index, configId, failedAt>>

\* fetch_sheets_with_tables raises (no credentials, no spreadsheet, no sheet
\* with data): run() ends with the exception
FetchFails ==
    /\ pc = "idle"
    /\ UNCHANGED grids
    /\ cycles < MaxCycles
    /\ cycles' = cycles + 1
    /\ pc' = "raised"
    /\ failedAt' = "fetch"
    /\ db0' = db /\ meta0' = metaFile /\ reg0' = regFile /\ index0' = index
    /\ UNCHANGED <<locals, stores, configId>>

\* run() line 71: store.clear_collection()
ClearCollection ==
    /\ pc = "clear"
    /\ UNCHANGED grids
    /\ index' = {}
    /\ pc' = "load"
    /\ UNCHANGED <<locals, db, metaFile, regFile, configId, cycles, failedAt, starts>>

\* run() lines 75 and 96: load_snapshot(...)
LoadSnapshot ==
    /\ pc = "load"
    /\ UNCHANGED grids
    /\ \E failAt \in 0..TotalTables(sheets_with_tables) :
        LET r == load_snapshot(db, metaFile, regFile, sheets_with_tables, full_reset,
                               changed_sheets, configId, failAt)
        IN /\ failAt <= Len(r.creates)
           /\ db' = r.db
           /\ metaFile' = r.file
           /\ regFile' = r.registry
           /\ pc' = IF r.raised THEN "raised" ELSE "rebuild"
           /\ failedAt' = IF r.raised THEN "load" ELSE failedAt
    /\ UNCHANGED <<locals, index, configId, cycles, starts>>

\* run() lines 79, 101 and 105: store.rebuild(...); ok = FALSE: it raises
\* after the old documents are deleted and before the new ones are added
StoreRebuild ==
    /\ pc = "rebuild"
    /\ UNCHANGED grids
    /\ \E ok \in BOOLEAN :
        LET source_ids == IF full_reset THEN <<>>
                          ELSE SourceIds(sheets_with_tables, changed_sheets)
            partial == ~full_reset /\ source_ids # <<>>
        IN /\ index' = IF ok THEN rebuild(index, db, partial, source_ids)
                       ELSE rebuild(index, EmptyStore, partial, source_ids)
           /\ pc' = IF ok THEN "serve" ELSE "raised"
           /\ failedAt' = IF ok THEN failedAt ELSE "rebuild"
    /\ UNCHANGED <<locals, db, metaFile, regFile, configId, cycles, starts>>

\* run() lines 110-176: the question is answered from the snapshot
Serve ==
    /\ pc = "serve"
    /\ UNCHANGED grids
    /\ pc' = "served"
    /\ UNCHANGED <<locals, stores, configId, cycles, failedAt, starts>>

\* run() returns or its exception reaches the caller: the locals are gone
Return ==
    /\ pc \in {"served", "raised"}
    /\ UNCHANGED grids
    /\ pc' = "idle"
    /\ sheets_with_tables' = <<>>
    /\ full_reset' = FALSE
    /\ changed_sheets' = <<>>
    /\ skipped' = {}
    /\ failedAt' = ""
    /\ db0' = EmptyStore /\ meta0' = EmptyStore /\ reg0' = NoRegistryFile /\ index0' = {}
    /\ UNCHANGED <<stores, configId, cycles>>

\* The user points config/settings.yaml at another spreadsheet
SwitchSpreadsheet ==
    /\ pc = "idle"
    /\ UNCHANGED grids
    /\ cycles < MaxCycles
    /\ \E id \in SpreadsheetIds \ {configId} : configId' = id
    /\ UNCHANGED <<pc, locals, stores, cycles, failedAt, starts>>

Next ==
    \/ Fetch
    \/ FetchFails
    \/ ClearCollection
    \/ LoadSnapshot
    \/ StoreRebuild
    \/ Serve
    \/ Return
    \/ SwitchSpreadsheet

Spec == Init /\ [][Next]_vars

\* The sync cycle with worksheets that fail to load
NextFetch ==
    \/ FetchSkipsSheet
    \/ Fetch
    \/ FetchFails
    \/ ClearCollection
    \/ LoadSnapshot
    \/ StoreRebuild
    \/ Serve
    \/ Return
    \/ SwitchSpreadsheet

SpecFetch == Init /\ [][NextFetch]_vars

\* The sync cycle with errors that the snapshot loader swallows
\* run() lines 75 and 96: load_snapshot(...) returns normally although a
\* step inside it failed
LoadSnapshotSwallows ==
    /\ pc = "load"
    /\ UNCHANGED grids
    /\ \E fault \in {"reset", "save"} :
        LET r == load_snapshot_swallowing(db, metaFile, regFile, sheets_with_tables,
                                          full_reset, changed_sheets, configId, fault)
        IN /\ fault = "reset" => full_reset
           /\ db' = r.db
           /\ metaFile' = r.file
           /\ regFile' = r.registry
           /\ pc' = "rebuild"
    /\ UNCHANGED <<locals, index, configId, cycles, failedAt, starts>>

NextSwallow ==
    \/ LoadSnapshotSwallows
    \/ Fetch
    \/ FetchFails
    \/ ClearCollection
    \/ LoadSnapshot
    \/ StoreRebuild
    \/ Serve
    \/ Return
    \/ SwitchSpreadsheet

SpecSwallow == Init /\ [][NextSwallow]_vars

\* ------------------------------------------------- one load_snapshot pass
\* The sheets a pass can be asked to rebuild: needs_refresh lists, in dict
\* order, sheets that have at least one table.
RECURSIVE SubSeqAt(_, _, _)
SubSeqAt(q, I, i) ==
    IF i > Len(q) THEN <<>>
    ELSE (IF i \in I THEN <<q[i]>> ELSE <<>>) \o SubSeqAt(q, I, i + 1)

ChangedChoices(swt) ==
    LET named == {i \in 1..Len(swt) : Len(swt[i].tables) > 0}
        keys == [i \in 1..Len(swt) |-> swt[i].name]
    IN {SubSeqAt(keys, I, 1) : I \in (SUBSET named) \ {{}}}

\* The sheets a pass rebuilds, and its tables in loop order
SheetsToRebuild(swt, full, changed) ==
    IF full \/ changed = <<>> THEN SortedNames(SwtKeys(swt)) ELSE changed

InitNames ==
    /\ pc = "names"
    /\ sheets_with_tables \in NamingInputs
    /\ full_reset \in BOOLEAN
    /\ changed_sheets \in (IF full_reset THEN {<<>>} ELSE ChangedChoices(sheets_with_tables))
    /\ db = EmptyStore
    /\ metaFile = EmptyStore
    /\ regFile = NoRegistryFile
    /\ index = {}
    /\ configId = <<"X">>
    /\ cycles = 0
    /\ failedAt = ""
    /\ skipped = {}
    /\ db0 = EmptyStore
    /\ meta0 = EmptyStore
    /\ reg0 = NoRegistryFile
    /\ index0 = {}
    /\ df = <<>>
    /\ returned = <<>>

\* load_snapshot(sheets_with_tables, full_reset, changed_sheets) on a new
\* installation (verify_fix.py calls it this way with full_reset=True)
NamesLoad ==
    /\ pc = "names"
    /\ UNCHANGED grids
    /\ LET r == load_snapshot(db, metaFile, regFile, sheets_with_tables, full_reset,
                              changed_sheets, configId, 0)
       IN /\ db' = r.db
          /\ metaFile' = r.file
          /\ regFile' = r.registry
    /\ pc' = "named"
    /\ UNCHANGED <<locals, index, configId, cycles, failedAt, starts>>

NextNames == NamesLoad

SpecNames == InitNames /\ [][NextNames]_vars

\* ------------------------------------------------- one needs_refresh call
\* needs_refresh(sheets_with_tables) against every kind of registry file.
\* compute_current_sheet_hashes reads the 'sheet_hash' key of a sheet's first
\* table, so the table dicts here come with and without that key.
Hashes == {<<"h", "1">>, <<"h", "2">>}

HashedTableInfo(name, i, title, sheet_hash) ==
    [title |-> title, sheet_name |-> name, sheet_hash |-> sheet_hash,
     dataframe |-> TableInfo(name, i, title).dataframe]

\* A sheet with no table, with one table without 'sheet_hash', or with one
\* table carrying a hash
ClassifySheets(name) ==
    {[name |-> name, tables |-> <<>>],
     [name |-> name, tables |-> <<TableInfo(name, 1, <<>>)>>]}
    \cup {[name |-> name, tables |-> <<HashedTableInfo(name, 1, <<>>, h)>>] : h \in Hashes}

ClassifyInputs ==
    {<<a>> : a \in ClassifySheets(<<"A">>)}
    \cup {<<b>> : b \in ClassifySheets(<<"B">>)}
    \cup {<<a, b>> : a \in ClassifySheets(<<"A">>), b \in ClassifySheets(<<"B">>)}

\* Registry files: the new format with every stored hash (None, "UNKNOWN", a
\* digest) for any subset of the sheets, the legacy format, and the files
\* that cannot be used
StoredHashes == {<<>>, UNKNOWN} \cup Hashes
StoredIds == {<<>>} \cup SpreadsheetIds

StoredSheets ==
    UNION {[names -> {[hash |-> h, table_count |-> 1,
                       source_id |-> <<>>] : h \in StoredHashes}] :
              names \in SUBSET SheetNames}

NewFormatFiles ==
    {[kind |-> "registry", spreadsheet_id |-> id, sheets |-> sh] :
        id \in StoredIds, sh \in StoredSheets}

LegacyFingerprints ==
    {{}, {<<"T">>}, {<<"A", "_", "T", "a", "b", "l", "e", "1">>},
     {<<"A", "_", "T", "a", "b", "l", "e", "1">>, <<"B", "_", "T", "a", "b", "l", "e", "2">>}}

LegacyFiles ==
    {[kind |-> "legacy", spreadsheet_id |-> id, sheets |-> sh, fingerprints |-> fp] :
        id \in StoredIds, sh \in {{}, {<<"A">>}}, fp \in LegacyFingerprints}

RegistryFiles ==
    {NoRegistryFile, CorruptRegistryFile, MalformedRegistryFile}
    \cup NewFormatFiles \cup LegacyFiles

InitClassify ==
    /\ pc = "classify"
    /\ sheets_with_tables \in ClassifyInputs
    /\ regFile \in RegistryFiles
    /\ configId \in SpreadsheetIds
    /\ full_reset = FALSE
    /\ changed_sheets = <<>>
    /\ db = EmptyStore
    /\ metaFile = EmptyStore
    /\ index = {}
    /\ cycles = 0
    /\ failedAt = ""
    /\ skipped = {}
    /\ db0 = EmptyStore
    /\ meta0 = EmptyStore
    /\ reg0 = regFile
    /\ index0 = {}
    /\ df = <<>>
    /\ returned = <<>>

\* needs_refresh(sheets_with_tables): the classification, and the registry
\* file it leaves behind
Classify ==
    /\ pc = "classify"
    /\ UNCHANGED grids
    /\ LET r == needs_refresh(regFile, sheets_with_tables, configId)
       IN /\ full_reset' = r.full
          /\ changed_sheets' = r.changed
    /\ regFile' = RegistryFileAfterLoad(regFile)
    /\ pc' = "classified"
    /\ UNCHANGED <<sheets_with_tables, skipped, db, metaFile, index, configId, cycles,
                   failedAt, starts>>

NextClassify == Classify

SpecClassify == InitClassify /\ [][NextClassify]_vars

\* ------------------------------------------- one detect_tables_custom call
\* Grids of blank and filled cells, of every shape within the bounds
GridShapes ==
    {s \in (1..MaxGridRows) \X (1..MaxGridCols) : s[1] * s[2] <= MaxGridCells}

DetectGrids ==
    UNION {[1..s[1] -> [1..s[2] -> {<<>>, <<"x">>}]] : s \in GridShapes}

InitDetect ==
    /\ pc = "detect"
    /\ df \in DetectGrids
    /\ returned = <<>>
    /\ sheets_with_tables = <<>>
    /\ full_reset = FALSE
    /\ changed_sheets = <<>>
    /\ db = EmptyStore
    /\ metaFile = EmptyStore
    /\ regFile = NoRegistryFile
    /\ index = {}
    /\ configId = <<"X">>
    /\ cycles = 0
    /\ failedAt = ""
    /\ skipped = {}
    /\ db0 = EmptyStore
    /\ meta0 = EmptyStore
    /\ reg0 = NoRegistryFile
    /\ index0 = {}

\* detect_tables_custom(df)
Detect ==
    /\ pc = "detect"
    /\ returned' = detect_tables_custom(df)
    /\ pc' = "detected"
    /\ UNCHANGED <<df, locals, stores, configId, cycles, failedAt, starts>>

NextDetect == Detect

SpecDetect == InitDetect /\ [][NextDetect]_vars

\* ------------------------------------------ one clean_detected_tables call
\* The regions the detector hands over have at least 2 rows and 2 columns.
\* Cells are blank, whitespace or text.
MaxCleanRows == 4
MaxCleanCols == 4
MaxCleanCells == 8
MaxTitleCols == 6

CleanCells == {<<>>, <<" ">>, <<"a">>}

CleanShapes ==
    {s \in (2..MaxCleanRows) \X (2..MaxCleanCols) : s[1] * s[2] <= MaxCleanCells}

\* The first scenario of the cleaner: a title, a header and two data rows
ScenarioGrid ==
    << <<<<"S", "a", "l", "e", "s">>, <<>>>>,
       <<<<"N", "a", "m", "e">>, <<"Q", "t", "y">>>>,
       <<<<"A">>, <<"1">>>>,
       <<<<"B">>, <<"2">>>> >>

\* Wide regions: any first and second row of blank and filled cells, and a
\* full data row
WideRegions ==
    {<<first, second, [j \in 1..MaxTitleCols |-> <<"1">>]>> :
        first \in [1..MaxTitleCols -> {<<>>, <<"a">>}],
        second \in [1..MaxTitleCols -> {<<>>, <<"a">>}]}

CleanInputs ==
    UNION {[1..s[1] -> [1..s[2] -> CleanCells]] : s \in CleanShapes}
    \cup WideRegions \cup {ScenarioGrid}

\* The table dict detect_tables_custom builds for a region that is the
\* whole grid
RegionOf(g) ==
    [table_id |-> 0, row_range |-> <<0, GridRows(g)>>,
     col_range |-> <<0, GridCols(g)>>, dataframe |-> g]

InitClean ==
    /\ pc = "clean"
    /\ df \in CleanInputs
    /\ returned = <<>>
    /\ sheets_with_tables = <<>>
    /\ full_reset = FALSE
    /\ changed_sheets = <<>>
    /\ db = EmptyStore
    /\ metaFile = EmptyStore
    /\ regFile = NoRegistryFile
    /\ index = {}
    /\ configId = <<"X">>
    /\ cycles = 0
    /\ failedAt = ""
    /\ skipped = {}
    /\ db0 = EmptyStore
    /\ meta0 = EmptyStore
    /\ reg0 = NoRegistryFile
    /\ index0 = {}

\* clean_detected_tables(detected_tables, keep_title=True)
Clean ==
    /\ pc = "clean"
    /\ returned' = clean_detected_tables(<<RegionOf(df)>>, TRUE)
    /\ pc' = "cleaned"
    /\ UNCHANGED <<df, locals, stores, configId, cycles, failedAt, starts>>

NextClean == Clean

SpecClean == InitClean /\ [][NextClean]_vars

\* ---------------------------------------- one detect_and_clean_tables call
SheetGrids == DetectGrids \cup {ScenarioGrid}

InitSheet ==
    /\ pc = "sheet"
    /\ df \in SheetGrids
    /\ returned = <<>>
    /\ sheets_with_tables = <<>>
    /\ full_reset = FALSE
    /\ changed_sheets = <<>>
    /\ db = EmptyStore
    /\ metaFile = EmptyStore
    /\ regFile = NoRegistryFile
    /\ index = {}
    /\ configId = <<"X">>
    /\ cycles = 0
    /\ failedAt = ""
    /\ skipped = {}
    /\ db0 = EmptyStore
    /\ meta0 = EmptyStore
    /\ reg0 = NoRegistryFile
    /\ index0 = {}

\* detect_and_clean_tables(raw_df, sheet_name); failedAt records that the
\* detector raised
DetectAndClean ==
    /\ pc = "sheet"
    /\ \E detector_raises \in BOOLEAN :
        /\ returned' = detect_and_clean_tables(df, <<"A">>, detector_raises)
        /\ failedAt' = IF detector_raises THEN "detect" ELSE failedAt
    /\ pc' = "tables"
    /\ UNCHANGED <<df, locals, stores, configId, cycles, starts>>

NextSheet == DetectAndClean

SpecSheet == InitSheet /\ [][NextSheet]_vars

\* ------------------------------------------- compute_sheet_hash, two calls
\* Raw grids as worksheet.get_all_values() gives them: rectangular lists of
\* strings; the cells include one with a trailing blank and one that holds
\* quotes and a comma
MaxHashRows == 2
MaxHashCols == 2
MaxHashCells == 4

HashCells == {<<>>, <<"1">>, <<"2">>, <<"1", " ">>, <<"1", "\"", ",", "\"", "1">>}

HashShapes ==
    {s \in (1..MaxHashRows) \X (1..MaxHashCols) : s[1] * s[2] <= MaxHashCells}

HashGrids ==
    {<<>>} \cup UNION {[1..s[1] -> [1..s[2] -> HashCells]] : s \in HashShapes}

\* The grids one edit away from g: another value in one cell, two rows or
\* two columns exchanged, a row or a column added or removed
SwapSeq(q, a, b) == [k \in 1..Len(q) |-> IF k = a THEN q[b] ELSE IF k = b THEN q[a] ELSE q[k]]

Edits(g) ==
    {[g EXCEPT ![ij[1]][ij[2]] = v] :
        ij \in (1..GridRows(g)) \X (1..GridCols(g)), v \in HashCells}
    \cup {SwapSeq(g, a, b) : a, b \in 1..GridRows(g)}
    \cup {[i \in 1..GridRows(g) |-> SwapSeq(g[i], a, b)] : a, b \in 1..GridCols(g)}
    \cup {Append(g, [j \in 1..GridCols(g) |-> <<>>])}
    \cup {[i \in 1..GridRows(g) |-> Append(g[i], <<>>)]}
    \cup (IF GridRows(g) > 0 THEN {SubSeq(g, 1, GridRows(g) - 1)} ELSE {})
    \cup (IF GridCols(g) > 1
          THEN {[i \in 1..GridRows(g) |-> SubSeq(g[i], 1, GridCols(g) - 1)]} ELSE {})

InitHash ==
    /\ pc = "hash"
    /\ df \in HashGrids
    /\ returned = <<>>
    /\ sheets_with_tables = <<>>
    /\ full_reset = FALSE
    /\ changed_sheets = <<>>
    /\ db = EmptyStore
    /\ metaFile = EmptyStore
    /\ regFile = NoRegistryFile
    /\ index = {}
    /\ configId = <<"X">>
    /\ cycles = 0
    /\ failedAt = ""
    /\ skipped = {}
    /\ db0 = EmptyStore
    /\ meta0 = EmptyStore
    /\ reg0 = NoRegistryFile
    /\ index0 = {}

\* compute_sheet_hash(raw_grid) before and after the sheet was edited (or
\* left as it was)
HashTwice ==
    /\ pc = "hash"
    /\ \E edited \in Edits(df) :
        returned' = [edited |-> edited,
                     before |-> compute_sheet_hash(df),
                     after |-> compute_sheet_hash(edited)]
    /\ pc' = "hashed"
    /\ UNCHANGED <<df, locals, stores, configId, cycles, failedAt, starts>>

NextHash == HashTwice

SpecHash == InitHash /\ [][NextHash]_vars

\* ================================================================== claims
\* The names a pass assigns, in loop order
PassCreates(swt, full, changed) ==
    AssignNames(TablesToLoad(swt, SheetsToRebuild(swt, full, changed)), <<>>)

CreatedNames(creates) == {creates[i].final_name : i \in 1..Len(creates)}

\* C1: in a rebuilding cycle the registry file is written only after
\* load_snapshot and store.rebuild have both completed: while the cycle has
\* not yet finished store.rebuild, the registry file is the one the cycle
\* started with.
C1_RegistryAfterIndex ==
    pc \in {"clear", "load", "rebuild"} => regFile = reg0

\* C2: when a step after classification raises (a table creation in
\* load_snapshot, the semantic-index rebuild), the registry file is the one
\* the cycle started with, so the same source content is classified as the
\* same rebuild scope again.
C2_FailureKeepsRegistry ==
    (pc = "raised" /\ failedAt \in {"load", "rebuild"}) =>
        /\ regFile = reg0
        /\ needs_refresh(regFile, sheets_with_tables, configId)
             = needs_refresh(reg0, sheets_with_tables, configId)

\* C3: a cycle that ends in a failure leaves the relational store and the
\* table metadata exactly as they were when the cycle started.
C3_FailureKeepsSnapshot ==
    pc = "raised" => (db = db0 /\ metaFile = meta0)

\* C4: an incremental load_snapshot for the changed sheets leaves every
\* relational table and every metadata entry that came from another sheet as
\* it was: still there, same content, same attribution.
C4_OtherSheetsUntouched ==
    (~full_reset /\ (pc = "rebuild" \/ (pc = "raised" /\ failedAt = "load"))) =>
        /\ \A n \in DOMAIN db0 :
              db0[n].sheet \notin SeqToSet(changed_sheets)
                  => (n \in DOMAIN db /\ db[n] = db0[n])
        /\ \A n \in DOMAIN meta0 :
              meta0[n].sheet_name \notin SeqToSet(changed_sheets)
                  => (n \in DOMAIN metaFile /\ metaFile[n] = meta0[n])

\* C5: after a successful incremental rebuild of a changed sheet S, the
\* metadata entries and relational tables that come from S are exactly the
\* tables S yields now; nothing derived from S's earlier content survives.
C5_ChangedSheetExact ==
    (~full_reset /\ pc = "rebuild") =>
        \A S \in SeqToSet(changed_sheets) :
            LET creates == PassCreates(sheets_with_tables, full_reset, changed_sheets)
                yields == {creates[i].final_name :
                              i \in {j \in 1..Len(creates) : creates[j].sheet_name = S}}
            IN /\ {n \in DOMAIN metaFile : metaFile[n].sheet_name = S} = yields
               /\ {n \in DOMAIN db : db[n].sheet = S} = yields

\* The tables of the current sheets, and the dataframes held by the store
CurrentFrames(swt) ==
    UNION {{swt[i].tables[k].dataframe : k \in 1..Len(swt[i].tables)} : i \in 1..Len(swt)}

StoredFrames(store) == {store[n] : n \in DOMAIN store}

\* C6: after a successful full reset the relational store and the metadata
\* file hold exactly one table / one entry per table of the current sheets
\* and nothing else.
C6_FullResetExact ==
    (full_reset /\ pc \in {"named", "rebuild"}) =>
        /\ Cardinality(DOMAIN db) = TotalTables(sheets_with_tables)
        /\ StoredFrames(db) = CurrentFrames(sheets_with_tables)
        /\ DOMAIN metaFile = DOMAIN db

\* C7: within one load_snapshot pass no two tables get the same final name,
\* so the pass writes as many metadata entries as it loads tables.
C7_UniqueNames ==
    pc = "named" =>
        LET creates == PassCreates(sheets_with_tables, full_reset, changed_sheets)
        IN /\ \A i, j \in 1..Len(creates) :
                 i # j => creates[i].final_name # creates[j].final_name
           /\ Cardinality(DOMAIN metaFile) = Len(creates)

\* The number of tables up to the i-th of the pass that share its base name
Occurrence(creates, i) ==
    Cardinality({j \in 1..i :
        BaseName(creates[j].sheet_name, creates[j].idx, creates[j].table_info)
          = BaseName(creates[i].sheet_name, creates[i].idx, creates[i].table_info)})

\* The i-th table of the pass is named base for the first occurrence of its
\* base name and base_<n + shift> for the n-th; an untitled table k of sheet
\* S has the base name S_Table<k>.
NamedBySuffix(creates, i, shift) ==
    LET c == creates[i]
        base == IF c.table_info.title = <<>>
                THEN c.sheet_name \o <<"_", "T", "a", "b", "l", "e">> \o IntToStr(c.idx)
                ELSE sanitize_table_name(c.table_info.title)
        n == Occurrence(creates, i)
    IN /\ c.final_name = IF n = 1 THEN base ELSE base \o <<"_">> \o IntToStr(n + shift)
       /\ c.final_name \in DOMAIN db

\* C8 as stated: the second table with a base name gets the suffix _1
\* (Title, Title_1), the third _2, and so on.
C8_SuffixFromOne ==
    pc = "named" =>
        LET creates == PassCreates(sheets_with_tables, full_reset, changed_sheets)
        IN \A i \in 1..Len(creates) : NamedBySuffix(creates, i, -1)

\* C8 amended: the first table with a base name keeps the bare base name and
\* the n-th (n >= 2) gets the suffix _<n>: two titled tables sharing the
\* sanitized title Title are named Title and Title_2; two untitled tables on
\* sheet Sheet1 are named Sheet1_Table1 and Sheet1_Table2.
C8_SuffixIsOccurrence ==
    pc = "named" =>
        LET creates == PassCreates(sheets_with_tables, full_reset, changed_sheets)
        IN \A i \in 1..Len(creates) : NamedBySuffix(creates, i, 0)

\* C8 witness: a finished pass with two tables titled T on one sheet and a
\* pass with two untitled tables on one sheet
C8_Witness ==
    /\ pc = "named"
    /\ \E i \in 1..Len(sheets_with_tables) :
          LET t == sheets_with_tables[i].tables
          IN Len(t) = 2 /\ t[1].title = t[2].title /\ t[1].title # <<>>
    /\ <<"T", "_", "2">> \in DOMAIN db

\* C9: once an incremental load_snapshot has run, running it again with the
\* same sheets_with_tables and changed_sheets leaves the same relational
\* tables and the same metadata entries.
C9_IncrementalIdempotent ==
    (pc = "rebuild" /\ ~full_reset) =>
        LET again == load_snapshot(db, metaFile, regFile, sheets_with_tables, FALSE,
                                   changed_sheets, configId, 0)
        IN /\ ~again.raised
           /\ again.db = db
           /\ again.file = metaFile

\* C9 witness: an incremental pass has run over a store that already held a
\* table of a changed sheet and a table of another sheet
C9_Witness ==
    /\ pc = "rebuild"
    /\ ~full_reset
    /\ \E n \in DOMAIN db0 : db0[n].sheet \in SeqToSet(changed_sheets)
    /\ \E n \in DOMAIN db0 : db0[n].sheet \notin SeqToSet(changed_sheets)
    /\ db # db0

\* C10: a table gets the same final name from an incremental pass over a
\* subset of the sheets as from a full reset over all sheets.
C10_SameNameInEveryRun ==
    (pc = "named" /\ ~full_reset) =>
        LET inc == PassCreates(sheets_with_tables, FALSE, changed_sheets)
            full == PassCreates(sheets_with_tables, TRUE, <<>>)
        IN \A i \in 1..Len(inc) : \E j \in 1..Len(full) :
              /\ full[j].sheet_name = inc[i].sheet_name
              /\ full[j].idx = inc[i].idx
              /\ full[j].final_name = inc[i].final_name

\* The hash needs_refresh holds for a current sheet: the first table's
\* 'sheet_hash', "UNKNOWN" without one, none for a sheet without tables
CurrentHash(swt, name) ==
    LET tables == SwtTables(swt, name)
    IN IF Len(tables) = 0 THEN <<>>
       ELSE IF TableGet(tables[1], "sheet_hash") = <<>> THEN UNKNOWN
       ELSE TableGet(tables[1], "sheet_hash")

\* The two full-reset conditions, read off the registry file the call found
IdDiffers(file, id) ==
    /\ file.kind \in {"registry", "legacy"}
    /\ file.spreadsheet_id # <<>>
    /\ file.spreadsheet_id # id

NoStoredSheets(file) ==
    \/ file.kind = "missing"
    \/ file.kind = "registry" /\ DOMAIN file.sheets = {}

\* C11: needs_refresh returns full reset whenever the registry's
\* spreadsheet_id is set and differs from the current one, whatever the
\* per-sheet hashes are, and whenever the registry has no sheets.
C11_FullResetFirst ==
    (pc = "classified" /\ (IdDiffers(reg0, configId) \/ NoStoredSheets(reg0))) =>
        (full_reset /\ changed_sheets = <<>>)

\* C11 witness: a full reset was returned for a registry of another
\* spreadsheet whose stored hashes all equal the current ones
C11_Witness ==
    /\ pc = "classified"
    /\ full_reset
    /\ reg0.kind = "registry"
    /\ IdDiffers(reg0, configId)
    /\ DOMAIN reg0.sheets = SwtKeys(sheets_with_tables)
    /\ \A nm \in DOMAIN reg0.sheets :
          /\ Len(SwtTables(sheets_with_tables, nm)) > 0
          /\ reg0.sheets[nm].hash = CurrentHash(sheets_with_tables, nm)

\* C12: when neither full-reset condition holds, the changed set is exactly
\* the current sheets that are absent from the registry, or have no stored
\* hash, or whose current hash differs from the stored one; the result is
\* NoChange iff that set is empty and Incremental(changed) otherwise.
C12_ChangedSetExact ==
    (/\ pc = "classified"
     /\ reg0.kind = "registry"
     /\ ~IdDiffers(reg0, configId)
     /\ ~NoStoredSheets(reg0)) =>
        /\ ~full_reset
        /\ SeqToSet(changed_sheets) =
              {nm \in SwtKeys(sheets_with_tables) :
                  \/ nm \notin DOMAIN reg0.sheets
                  \/ reg0.sheets[nm].hash = <<>>
                  \/ CurrentHash(sheets_with_tables, nm) # reg0.sheets[nm].hash}

\* C13: a registry file in the legacy table-fingerprint format makes
\* needs_refresh return full reset.
C13_LegacyIsFullReset ==
    (pc = "classified" /\ reg0.kind = "legacy") => full_reset

\* C14: needs_refresh leaves the registry file as it found it, whatever the
\* file holds and whatever the classification is.
C14_ClassifyKeepsRegistry ==
    pc = "classified" => regFile = reg0

\* C14 witness: a call that found a legacy file and classified an
\* incremental rebuild
C14_Witness ==
    /\ pc = "classified"
    /\ reg0.kind = "legacy"
    /\ ~full_reset
    /\ changed_sheets # <<>>

\* C20: a registry file that cannot be read or is not valid is treated as
\* an empty registry: the classification is a full reset for every set of
\* current sheets.
C20_BadRegistryIsFullReset ==
    (pc = "classified" /\ reg0.kind \in {"corrupt", "malformed"}) =>
        /\ full_reset
        /\ changed_sheets = <<>>
        /\ needs_refresh(NoRegistryFile, sheets_with_tables, configId)
             = [needs |-> TRUE, full |-> full_reset, changed |-> changed_sheets]

\* C20 witness: a full reset classified from an unparsable registry file,
\* with two current sheets that have tables
C20_Witness ==
    /\ pc = "classified"
    /\ reg0.kind = "corrupt"
    /\ full_reset
    /\ \A i \in 1..Len(sheets_with_tables) : Len(sheets_with_tables[i].tables) > 0
    /\ Len(sheets_with_tables) = 2

\* The sheets the registry the cycle started with knows and the fetch did
\* not return
DeletedSheets ==
    IF reg0.kind = "registry"
    THEN DOMAIN reg0.sheets \ SwtKeys(sheets_with_tables)
    ELSE {}

\* C15: a sheet that is in the registry and not among the current sheets is
\* never in the changed set, and a cycle that is not a full reset leaves the
\* tables and the metadata entries derived from it in place.
C15_DeletedSheetKept ==
    (pc \in {"load", "rebuild", "serve", "served", "raised"} /\ ~full_reset) =>
        \A S \in DeletedSheets :
            /\ S \notin SeqToSet(changed_sheets)
            /\ \A n \in DOMAIN db0 :
                  db0[n].sheet = S => (n \in DOMAIN db /\ db[n] = db0[n])
            /\ \A n \in DOMAIN meta0 :
                  meta0[n].sheet_name = S =>
                      (n \in DOMAIN metaFile /\ metaFile[n] = meta0[n])

StartedSynced ==
    /\ reg0.kind = "registry"
    /\ db0 # EmptyStore
    /\ DOMAIN meta0 = DOMAIN db0
    /\ index0 = build_schema_documents(db0)

\* The dataframes sheet S yields now, and those the store held for it when
\* the cycle started
FramesNow(S) ==
    {SwtTables(sheets_with_tables, S)[k].dataframe :
        k \in 1..Len(SwtTables(sheets_with_tables, S))}

FramesAtStart(S) == {db0[n] : n \in {m \in DOMAIN db0 : db0[m].sheet = S}}

\* C17: after a successful sync, when the content of a sheet then changes,
\* the next cycle's fetch and needs_refresh report a refresh whose scope
\* includes that sheet.
C17_ContentChangeDetected ==
    (pc # "idle" /\ StartedSynced) =>
        \A S \in DOMAIN reg0.sheets \cap SwtKeys(sheets_with_tables) :
            (/\ FramesNow(S) # {}
             /\ FramesAtStart(S) # {}
             /\ FramesNow(S) # FramesAtStart(S)) =>
                (full_reset \/ S \in SeqToSet(changed_sheets))

\* C18: when load_snapshot is interrupted after it has changed the
\* relational store and before the registry is written (by a failing
\* statement, or after its last statement before mark_synced), the next
\* cycle on the same sheets classifies the same scope and, when it
\* completes, leaves the relational store and the table metadata as an
\* uninterrupted cycle would have.
C18_RetryAfterInterruption ==
    (pc = "raised" /\ failedAt = "load") =>
        LET again == needs_refresh(regFile, sheets_with_tables, configId)
            retry == load_snapshot(db, metaFile, regFile, sheets_with_tables,
                                   again.full, again.changed, configId, 0)
            clean == load_snapshot(db0, meta0, reg0, sheets_with_tables,
                                   full_reset, changed_sheets, configId, 0)
            late == load_snapshot(clean.db, clean.file, reg0, sheets_with_tables,
                                  full_reset, changed_sheets, configId, 0)
        IN /\ again = [needs |-> TRUE, full |-> full_reset, changed |-> changed_sheets]
           /\ retry.db = clean.db
           /\ retry.file = clean.file
           /\ late.db = clean.db
           /\ late.file = clean.file

\* C18 witness: an incremental load_snapshot over a store with tables was
\* interrupted after it had created a table
C18_Witness ==
    /\ pc = "raised"
    /\ failedAt = "load"
    /\ ~full_reset
    /\ db0 # EmptyStore
    /\ \E n \in DOMAIN db : n \notin DOMAIN db0

\* C19: when fetching a sheet fails during a cycle, the cycle is aborted:
\* the error reaches the caller, nothing is rebuilt, the registry is not
\* written and no query is served.
C19_FetchFailureAborts ==
    skipped # {} =>
        /\ pc \notin {"rebuild", "serve", "served"}
        /\ db = db0
        /\ metaFile = meta0
        /\ index = index0
        /\ regFile = reg0

\* C21: no error inside the snapshot manager (deleting the database file,
\* saving the metadata file) is swallowed in a way that lets a cycle finish
\* with the registry marked synced while the store or the metadata do not
\* match the current sheets: a full-reset cycle that was served with the
\* registry marked has exactly the tables the pass created in the store, an
\* entry for each in the metadata file, and each entry's row count is the
\* table's.
C21_NoSwallowedMismatch ==
    (pc = "served" /\ full_reset /\ failedAt = ""
        /\ regFile = mark_synced(sheets_with_tables, configId)) =>
        LET creates == PassCreates(sheets_with_tables, full_reset, changed_sheets)
        IN /\ DOMAIN db = CreatedNames(creates)
           /\ DOMAIN metaFile = DOMAIN db
           /\ \A n \in DOMAIN metaFile : metaFile[n].row_count = db[n].rows

\* C30: after every cycle that finishes without raising, the table names of
\* the metadata file are the table names of the relational store, and each
\* entry's row_count is the number of rows of its table.
C30_MetadataMatchesStore ==
    (pc = "served" /\ failedAt = "") =>
        /\ DOMAIN metaFile = DOMAIN db
        /\ \A n \in DOMAIN metaFile \cap DOMAIN db : metaFile[n].row_count = db[n].rows

\* The documents of idx that describe a table of store coming from a sheet
\* outside the changed sheets
DocsOfOtherSheets(idx, store, changed) ==
    {d \in idx : /\ DocGet(d, "table") \in DOMAIN store
                 /\ store[DocGet(d, "table")].sheet \notin SeqToSet(changed)}

\* C29: after an incremental cycle the semantic index contains a document
\* for every current table of each changed sheet (affected source_id), and
\* the documents of the tables of all other sheets are the ones the index
\* held when the cycle started.
C29_IncrementalIndexScoped ==
    (pc = "served" /\ failedAt = "" /\ ~full_reset /\ changed_sheets # <<>>) =>
        LET creates == PassCreates(sheets_with_tables, full_reset, changed_sheets)
        IN /\ \A n \in CreatedNames(creates) : [type |-> "table", table |-> n] \in index
           /\ DocsOfOtherSheets(index, db, changed_sheets)
                = DocsOfOtherSheets(index0, db, changed_sheets)

\* Two row/column ranges share a cell
Overlap(a, b) ==
    /\ a.row_range[1] < b.row_range[2] /\ b.row_range[1] < a.row_range[2]
    /\ a.col_range[1] < b.col_range[2] /\ b.col_range[1] < a.col_range[2]

\* C22: for every grid, no two regions returned by detect_tables_custom
\* share a cell (the title row added by shifting the top boundary up
\* included).
C22_RegionsDisjoint ==
    pc = "detected" =>
        \A i, j \in 1..Len(returned.tables) :
            i # j => ~Overlap(returned.tables[i], returned.tables[j])

\* C23: for every grid, every region returned by detect_tables_custom spans
\* at least 2 rows and at least 2 columns; the cells of every candidate are
\* marked claimed, and only the candidates of at least 2 x 2 are returned.
C23_MinimumSize ==
    pc = "detected" =>
        /\ \A i \in 1..Len(returned.tables) :
              LET t == returned.tables[i]
              IN /\ t.row_range[2] - t.row_range[1] >= 2
                 /\ t.col_range[2] - t.col_range[1] >= 2
        /\ \A i \in 1..Len(returned.candidates) :
              LET e == returned.candidates[i]
              IN CellsOf(e.r0, e.r1, e.c0, e.c1) \subseteq returned.assigned
        /\ Len(returned.tables)
             = Cardinality({i \in 1..Len(returned.candidates) :
                               /\ returned.candidates[i].r1 - returned.candidates[i].r0 >= 2
                               /\ returned.candidates[i].c1 - returned.candidates[i].c0 >= 2})

\* A candidate smaller than 2 x 2 was discarded next to a returned region
C23_Witness ==
    /\ pc = "detected"
    /\ Len(returned.tables) >= 1
    /\ \E i \in 1..Len(returned.candidates) :
          LET e == returned.candidates[i]
          IN e.r1 - e.r0 >= 2 /\ e.c1 - e.c0 < 2

\* The number of consecutive rows from r on without data in columns c0..c1
RECURSIVE SparseRun(_, _, _, _)
SparseRun(g, r, c0, c1) ==
    IF r < GridRows(g) /\ ~RowHasData(g, r, c0, c1)
    THEN 1 + SparseRun(g, r + 1, c0, c1) ELSE 0

\* C28: the downward growth of expand_table_region takes a row when at least
\* 30% of the cells of the current column range are occupied, goes on across
\* a run of up to 2 consecutive rows below that threshold, and ends only at
\* the end of the grid or at a longer run; the rows below the threshold at
\* the end are not part of the region.
C28_GrowthToleratesTwoRows ==
    pc = "detected" =>
        \A i \in 1..Len(returned.candidates) :
            LET e == returned.candidates[i]
                run == SparseRun(df, e.r1, e.c0, e.c1)
            IN /\ (e.r1 - 1 = e.r0 \/ RowHasData(df, e.r1 - 1, e.c0, e.c1))
               /\ (run > max_empty_rows \/ e.r1 + run = GridRows(df))

\* C24: every table returned by clean_detected_tables has pairwise distinct
\* column names: duplicate names in the promoted header row, and a
\* placeholder Column_<i> that equals another header, are told apart.
C24_ColumnNamesDistinct ==
    pc = "cleaned" =>
        \A k \in 1..Len(returned) :
            \A i, j \in 1..Len(returned[k].columns) :
                i # j => returned[k].columns[i] # returned[k].columns[j]

\* C25: clean_detected_tables takes the first row of a region as a title
\* exactly when it has at most 2 non-blank cells or fewer than 60% of the
\* second row's non-blank cells; the title is the row's first non-blank
\* cell, and the row is removed before the header is promoted.  The grid
\* [[Sales],[Name,Qty],[A,1],[B,2]] gives title Sales, header [Name, Qty]
\* and 2 data rows.
C25_TitleRule ==
    pc = "cleaned" =>
        LET n1 == NonBlankCount(df[1])
            n2 == NonBlankCount(df[2])
            titled == n1 <= 2 \/ 10 * n1 < 6 * n2
            body == IF titled THEN Tail(df) ELSE df
            top == IF titled THEN 1 ELSE 0
        IN /\ \A k \in 1..Len(returned) :
                LET t == returned[k]
                IN /\ ("title" \in DOMAIN t) <=> (titled /\ n1 >= 1)
                   /\ ("title" \in DOMAIN t) => t.title = FirstNonBlank(df[1])
                   /\ \/ /\ t.row_range[1] = top
                         /\ t.dataframe = DropTrailingBlank(body)
                      \/ /\ t.row_range[1] = top + 1
                         /\ t.columns = HeaderNames(body[1])
                         /\ t.dataframe = DropTrailingBlank(Tail(body))
           /\ df = ScenarioGrid =>
                /\ Len(returned) = 1
                /\ returned[1].title = <<"S", "a", "l", "e", "s">>
                /\ returned[1].columns = <<<<"N", "a", "m", "e">>, <<"Q", "t", "y">>>>
                /\ returned[1].dataframe = <<<<<<"A">>, <<"1">>>>, <<<<"B">>, <<"2">>>>>>

\* The scenario grid was cleaned and its title found
C25_Witness ==
    /\ pc = "cleaned"
    /\ df = ScenarioGrid
    /\ Len(returned) = 1
    /\ "title" \in DOMAIN returned[1]

\* C27: if detect_tables_custom raises or returns no regions for a sheet,
\* detect_and_clean_tables returns exactly one table that covers the whole
\* grid: row_range (0, rows), col_range (0, cols).
C27_FallbackWholeGrid ==
    (pc = "tables" /\ (failedAt = "detect" \/ detect_tables_custom(df).tables = <<>>)) =>
        /\ Len(returned) = 1
        /\ returned[1].row_range = <<0, GridRows(df)>>
        /\ returned[1].col_range = <<0, GridCols(df)>>
        /\ returned[1].dataframe = df

\* The detector raised on a grid that has regions, and one table came back
C27_Witness ==
    /\ pc = "tables"
    /\ failedAt = "detect"
    /\ detect_tables_custom(df).tables # <<>>
    /\ Len(returned) = 1

\* C26: two raw grids that differ in the value of a single cell, in the
\* order of rows or columns, or in their dimensions get different digests
\* from compute_sheet_hash, and the same grid gets the same digest again.
C26_HashTellsGridsApart ==
    pc = "hashed" =>
        /\ returned.edited # df => returned.after # returned.before
        /\ returned.edited = df => returned.after = returned.before

====
